---------------------------- MODULE Spec2Model ----------------------------
(***************************************************************************)
(* Model of the BMN grid-coordinate engine of src/osgb36/osgb36.go:        *)
(* BMNCoord.String, ABMNToStruct, BMNToWGS84LatLong, WGS84LatLongToBMN     *)
(* and NewBMNCoord.                                                        *)
(*                                                                         *)
(* Representation.                                                         *)
(*  - A Go string is a sequence of one-character strings.                  *)
(*  - A float64 easting/northing is an integer number of tenths, so that   *)
(*    350000.5 is 3500005.  Every numeral the model feeds to the parser    *)
(*    has at most one fractional digit that is not zero.                   *)
(*  - A longitude is an integer number of arc minutes (1/60 degree), so    *)
(*    that 11.0+0.5/6*10 degrees is 11*60+50 and 10.0+20.0/60.0 degrees is *)
(*    10*60+20.                                                            *)
(*  - A pointer is a sequence: <<>> is nil and <<r>> points to record r.   *)
(***************************************************************************)
EXTENDS Integers, Sequences, FiniteSets, TLC

VARIABLES
    op,        \* the engine operation that ran last ("none" before any)
    gc,        \* the caller's *cartconvert.PolarCoord object
    bc,        \* the caller's *BMNCoord object
    toks,      \* the tokens the caller assembled into text
    text,      \* the string handed to ABMNToStruct
    marg,      \* the meridian argument handed to WGS84LatLongToBMN
    before,    \* the objects gc and bc as they were when the last call began
    shifted,   \* the longitude the datum shift to MGI gives for the object gc
    mgi,       \* local polar of WGS84LatLongToBMN (point on the Bessel ellipsoid)
    meridian,  \* local meridian of WGS84LatLongToBMN after zone determination
    tm,        \* the Transverse Mercator call the operation made, <<>> if none
    fs,        \* result of BMNCoord.String
    coord,     \* returned *BMNCoord
    polar,     \* returned *cartconvert.PolarCoord
    err,       \* returned os.Error
    panicked   \* the call ended in a run-time panic instead of returning

vars == <<op, gc, bc, before, toks, text, marg, shifted, mgi, meridian, tm, fs, coord, polar,
          err, panicked>>

(***************************************************************************)
(* Bounds of the model.                                                    *)
(***************************************************************************)
MaxPad == 1      \* most whitespace characters before and after the text
MaxSep == 2      \* most spaces between two tokens
MaxExtra == 1    \* most tokens after the third
MaxOut == 30     \* arc minutes by which longitudes overshoot the three ranges

(***************************************************************************)
(* type BMNMeridian and its constants.                                     *)
(***************************************************************************)
BMNZoneDet == 0
BMNM28 == 1
BMNM31 == 2
BMNM34 == 3

Nil == <<>>

(***************************************************************************)
(* Strings.                                                                *)
(***************************************************************************)
Lower == <<"a","b","c","d","e","f","g","h","i","j","k","l","m",
           "n","o","p","q","r","s","t","u","v","w","x","y","z">>
Upper == <<"A","B","C","D","E","F","G","H","I","J","K","L","M",
           "N","O","P","Q","R","S","T","U","V","W","X","Y","Z">>
Digit == <<"0","1","2","3","4","5","6","7","8","9">>
WhiteSpace == {" ", "\t", "\n", "\r"}

IsDigit(c) == \E i \in 1..10 : Digit[i] = c
DigitVal(c) == (CHOOSE i \in 1..10 : Digit[i] = c) - 1

\* a faulty strings.ToUpper, which leaves the case of every letter
ToUpperKeepsCase(s) == s

\* strings.ToUpper
ToUpper(s) ==
    [i \in 1..Len(s) |->
        IF \E k \in 1..26 : Lower[k] = s[i]
        THEN Upper[CHOOSE k \in 1..26 : Lower[k] = s[i]]
        ELSE s[i]]

RECURSIVE TrimLeftSet(_, _)
TrimLeftSet(s, cut) ==
    IF Len(s) > 0 /\ s[1] \in cut THEN TrimLeftSet(Tail(s), cut) ELSE s

RECURSIVE TrimRightSet(_, _)
TrimRightSet(s, cut) ==
    IF Len(s) > 0 /\ s[Len(s)] \in cut
    THEN TrimRightSet(SubSeq(s, 1, Len(s) - 1), cut)
    ELSE s

\* strings.TrimSpace
TrimSpace(s) == TrimRightSet(TrimLeftSet(s, WhiteSpace), WhiteSpace)

\* strings.TrimLeft(s, " ")
TrimLeft(s) == TrimLeftSet(s, {" "})

\* strings.Index(s, " "): the 0-based place of the first space, -1 if none
Index(s) ==
    IF \E i \in 1..Len(s) : s[i] = " "
    THEN (CHOOSE i \in 1..Len(s) : s[i] = " " /\ \A j \in 1..(i - 1) : s[j] # " ") - 1
    ELSE -1

\* the decimal digits of a natural number
RECURSIVE Itoa(_)
Itoa(n) == IF n < 10 THEN <<Digit[n + 1]>> ELSE Itoa(n \div 10) \o <<Digit[(n % 10) + 1]>>

RECURSIVE DigitsVal(_)
DigitsVal(s) ==
    IF Len(s) = 0 THEN 0
    ELSE DigitsVal(SubSeq(s, 1, Len(s) - 1)) * 10 + DigitVal(s[Len(s)])

Abs(v) == IF v < 0 THEN -v ELSE v

(***************************************************************************)
(* The error values the engine returns.                                    *)
(***************************************************************************)
NoError == "nil"
EINVAL == "os.EINVAL"
NumError == "strconv.NumError"

BesselEllipsoid == "cartconvert.BesselEllipsoid"
WGS84Ellipsoid == "cartconvert.WGS84Ellipsoid"

(***************************************************************************)
(* BMNCoord.String                                                         *)
(***************************************************************************)
\* var bmnStrings: a meridian that is no key of the map yields ""
bmnStrings(m) ==
    CASE m = BMNM28 -> <<"M", "2", "8">>
      [] m = BMNM31 -> <<"M", "3", "1">>
      [] m = BMNM34 -> <<"M", "3", "4">>
      [] OTHER -> <<>>

\* fmt.Sprintf("%.0f", next): next (in tenths) rounded to an integer, ties to
\* even, with the sign of next
Sprintf0f(next) ==
    LET a == Abs(next)
        q == a \div 10
        r == a % 10
        n == IF r > 5 \/ (r = 5 /\ q % 2 = 1) THEN q + 1 ELSE q
    IN  (IF next < 0 THEN <<"-">> ELSE <<>>) \o Itoa(n)

\* for n > 0 && fs[n-1] == '0' { n-- }
RECURSIVE SkipZeros(_, _)
SkipZeros(s, n) == IF n > 0 /\ s[n] = "0" THEN SkipZeros(s, n - 1) ELSE n

\* one round of the loop of String: append " " and the numeral, then cut
\* the zeros and the point that end the whole of fs
StringRound(fs0, next) ==
    LET s == fs0 \o <<" ">> \o Sprintf0f(next)
        n0 == SkipZeros(s, Len(s))
        n == IF n0 > 0 /\ s[n0] = "." THEN n0 - 1 ELSE n0
    IN  SubSeq(s, 1, n)

\* func (bc *BMNCoord) String() (fs string)
String(b) == StringRound(StringRound(bmnStrings(b.Meridian), b.Right), b.Height)

(***************************************************************************)
(* ABMNToStruct                                                            *)
(***************************************************************************)
\* strconv.Atof64 on a numeral of the form [+-]digits[.digits]; any other
\* token is an error.  The value is in tenths.
Atof64(s) ==
    LET signed == Len(s) > 0 /\ s[1] \in {"+", "-"}
        body == IF signed THEN Tail(s) ELSE s
        dots == {i \in 1..Len(body) : body[i] = "."}
        dot == IF dots = {} THEN Len(body) + 1 ELSE CHOOSE i \in dots : TRUE
        ip == SubSeq(body, 1, dot - 1)
        fp == SubSeq(body, dot + 1, Len(body))
        wellFormed == /\ Cardinality(dots) <= 1
                      /\ Len(ip) + Len(fp) > 0
                      /\ \A i \in 1..Len(ip) : IsDigit(ip[i])
                      /\ \A i \in 1..Len(fp) : IsDigit(fp[i])
        mag == DigitsVal(ip) * 10 + (IF Len(fp) > 0 THEN DigitVal(fp[1]) ELSE 0)
    IN  IF wellFormed
        THEN [val |-> IF signed /\ s[1] = "-" THEN -mag ELSE mag, err |-> NoError]
        ELSE [val |-> 0, err |-> NumError]

\* L1: for i, index := 0, 0; i < 3; i++ { ... }.  v holds the locals
\* meridian, rights, heights and err; v.panic tells that the slice
\* expression compact[index+len(" "):] was out of range.
RECURSIVE L1(_, _, _)
L1(i, compact, v) ==
    IF i >= 3 THEN v
    ELSE
    LET found == Index(compact)
        index == IF found = -1 THEN Len(compact) ELSE found
        tok == SubSeq(compact, 1, index)
        \* compact = compact[index+len(" "):]; compact = strings.TrimLeft(compact, " ")
        rest == TrimLeft(SubSeq(compact, index + 2, Len(compact)))
        next == [v EXCEPT !.panic = index + 1 > Len(compact)]
    IN  CASE i = 0 ->
               IF tok = <<"M", "2", "8">>
               THEN (IF next.panic THEN next
                     ELSE L1(1, rest, [next EXCEPT !.meridian = BMNM28]))
               ELSE IF tok = <<"M", "3", "1">>
               THEN (IF next.panic THEN next
                     ELSE L1(1, rest, [next EXCEPT !.meridian = BMNM31]))
               ELSE IF tok = <<"M", "3", "4">>
               THEN (IF next.panic THEN next
                     ELSE L1(1, rest, [next EXCEPT !.meridian = BMNM34]))
               ELSE [v EXCEPT !.err = EINVAL]       \* break L1
          [] i = 1 ->
               IF next.panic THEN next
               ELSE L1(2, rest, [next EXCEPT !.rights = tok])
          [] OTHER ->
               [v EXCEPT !.heights = tok]           \* break L1

\* func ABMNToStruct(bmncoord string) (*BMNCoord, os.Error)
ABMNToStruct(bmncoord) ==
    LET compact == ToUpper(TrimSpace(bmncoord))
        v == L1(0, compact, [meridian |-> BMNZoneDet, rights |-> <<>>,
                             heights |-> <<>>, err |-> NoError, panic |-> FALSE])
        right == Atof64(v.rights)
        height == Atof64(v.heights)
    IN  IF v.panic THEN [panic |-> TRUE, coord |-> Nil, err |-> NoError]
        ELSE IF v.err # NoError THEN [panic |-> FALSE, coord |-> Nil, err |-> v.err]
        ELSE IF right.err # NoError THEN [panic |-> FALSE, coord |-> Nil, err |-> right.err]
        ELSE IF height.err # NoError THEN [panic |-> FALSE, coord |-> Nil, err |-> height.err]
        ELSE [panic |-> FALSE,
              coord |-> <<[Right |-> right.val, Height |-> height.val, RelHeight |-> 0,
                           Meridian |-> v.meridian, el |-> BesselEllipsoid]>>,
              err |-> NoError]

(***************************************************************************)
(* Zone determination and projection parameters.                           *)
(***************************************************************************)
Deg(d) == d * 60

\* the constant 0.5/6 (degrees), in arc minutes: 0.5/6*10 without its factor
HalfSixth == (Deg(1) * 5) \div (10 * 6)

\* the constant 0.5/6*10 (degrees), in arc minutes
HalfSixthTimesTen == (Deg(1) * 5 * 10) \div (10 * 6)

\* case 11.0+0.5/6*10 >= polar.Longitude && polar.Longitude >= 8.0+0.5/6*10
InM28Range(long) ==
    Deg(11) + HalfSixthTimesTen >= long /\ long >= Deg(8) + HalfSixthTimesTen

\* case 14.0+0.5/6*10 >= polar.Longitude && polar.Longitude >= 11.0+0.5/6*10
InM31Range(long) ==
    Deg(14) + HalfSixthTimesTen >= long /\ long >= Deg(11) + HalfSixthTimesTen

\* case 17.0+0.5/6*10 >= polar.Longitude && polar.Longitude >= 14.0+0.5/6*10
InM34Range(long) ==
    Deg(17) + HalfSixthTimesTen >= long /\ long >= Deg(14) + HalfSixthTimesTen

\* a faulty switch, with its cases from east to west
ZoneSwitchEastFirst(m, long) ==
    CASE InM34Range(long) -> BMNM34
      [] InM31Range(long) -> BMNM31
      [] InM28Range(long) -> BMNM28
      [] OTHER -> m

\* switch { case ...: meridian = BMNM28 case ...: meridian = BMNM31
\* case ...: meridian = BMNM34 }: the first case that holds is taken (TLC
\* takes the first arm of a CASE whose guard holds)
ZoneSwitch(m, long) ==
    CASE InM28Range(long) -> BMNM28
      [] InM31Range(long) -> BMNM31
      [] InM34Range(long) -> BMNM34
      [] OTHER -> m

\* a faulty zone determination, which overrides the meridian of the caller
DetermineAlways(m, long) == ZoneSwitch(BMNZoneDet, long)

\* if meridian == BMNZoneDet { switch { ... } }
DetermineMeridian(m, long) == IF m = BMNZoneDet THEN ZoneSwitch(m, long) ELSE m

\* a faulty switch on the meridian, whose default arm falls back on M28
ParamsDefaultM28(m) ==
    CASE m = BMNM31 -> [ok |-> TRUE, long0 |-> Deg(13) + 20, fe |-> 450000]
      [] m = BMNM34 -> [ok |-> TRUE, long0 |-> Deg(16) + 20, fe |-> 750000]
      [] OTHER -> [ok |-> TRUE, long0 |-> Deg(10) + 20, fe |-> 150000]

\* switch bmncoord.Meridian { ... default: return nil, os.EINVAL } of
\* BMNToWGS84LatLong
InverseParams(m) ==
    CASE m = BMNM28 -> [ok |-> TRUE, long0 |-> Deg(10) + 20, fe |-> 150000]
      [] m = BMNM31 -> [ok |-> TRUE, long0 |-> Deg(13) + 20, fe |-> 450000]
      [] m = BMNM34 -> [ok |-> TRUE, long0 |-> Deg(16) + 20, fe |-> 750000]
      [] OTHER -> [ok |-> FALSE, long0 |-> 0, fe |-> 0]

\* switch meridian { ... default: return nil, os.EINVAL } of WGS84LatLongToBMN
DirectParams(m) ==
    CASE m = BMNM28 -> [ok |-> TRUE, long0 |-> Deg(10) + 20, fe |-> 150000]
      [] m = BMNM31 -> [ok |-> TRUE, long0 |-> Deg(13) + 20, fe |-> 450000]
      [] m = BMNM34 -> [ok |-> TRUE, long0 |-> Deg(16) + 20, fe |-> 750000]
      [] OTHER -> [ok |-> FALSE, long0 |-> 0, fe |-> 0]

(***************************************************************************)
(* The cartconvert package, of which this repository holds no source.  Its *)
(* functions are pure: a result is a term built from the function's name   *)
(* and its arguments, and the projection keeps the ellipsoid of its input. *)
(***************************************************************************)
\* cartconvert.DirectTransverseMercator(gc, lat0, long0, scale, fe, fn)
DirectTransverseMercator(p, lat0, long0, scale, fe, fn) ==
    LET call == [fn |-> "DirectTransverseMercator", pt |-> p, lat0 |-> lat0,
                 long0 |-> long0, scale |-> scale, fe |-> fe, fnorth |-> fn]
    IN  [X |-> <<"X", call>>, Y |-> <<"Y", call>>, El |-> p.El]

\* cartconvert.InverseTransverseMercator(pt, lat0, long0, scale, fe, fn)
InverseTransverseMercator(p, lat0, long0, scale, fe, fn) ==
    LET call == [fn |-> "InverseTransverseMercator", pt |-> p, lat0 |-> lat0,
                 long0 |-> long0, scale |-> scale, fe |-> fe, fnorth |-> fn]
    IN  [Latitude |-> <<"Latitude", call>>, Longitude |-> <<"Longitude", call>>,
         Height |-> <<"Height", call>>, El |-> p.El]

\* CartesianToPolar(HelmertWGS84ToMGI.InverseTransform(PolarToCartesian(gc)))
\* with the ellipsoid of the result set to WGS84Ellipsoid
MGIToWGS84(p) ==
    [Latitude |-> <<"Latitude", "MGIToWGS84", p>>,
     Longitude |-> <<"Longitude", "MGIToWGS84", p>>,
     Height |-> <<"Height", "MGIToWGS84", p>>, El |-> WGS84Ellipsoid]

\* CartesianToPolar(HelmertWGS84ToMGI.Transform(PolarToCartesian(gc))) with
\* the ellipsoid of the result set to BesselEllipsoid.  The longitude of the
\* result is not computed here: it is the input long of the model.
WGS84ToMGI(g, long) ==
    [Latitude |-> <<"Latitude", "WGS84ToMGI", g>>, Longitude |-> long,
     Height |-> <<"Height", "WGS84ToMGI", g>>, El |-> BesselEllipsoid]

(***************************************************************************)
(* BMNToWGS84LatLong and WGS84LatLongToBMN                                 *)
(***************************************************************************)
\* func BMNToWGS84LatLong(bmncoord *BMNCoord) (*cartconvert.PolarCoord, os.Error)
BMNToWGS84LatLong(bmncoord) ==
    LET par == InverseParams(bmncoord.Meridian)
        pt == [Y |-> bmncoord.Height, X |-> bmncoord.Right, El |-> bmncoord.el]
        g == InverseTransverseMercator(pt, 0, par.long0, 1, par.fe, -5000000)
    IN  IF ~par.ok
        THEN [polar |-> Nil, err |-> EINVAL, tm |-> Nil]
        ELSE [polar |-> <<MGIToWGS84(g)>>, err |-> NoError,
              tm |-> <<[fn |-> "InverseTransverseMercator", lat0 |-> 0,
                        long0 |-> par.long0, scale |-> 1, fe |-> par.fe,
                        fnorth |-> -5000000]>>]

\* a faulty assignment, which sets gc.El to the ellipsoid of the grid
SetEllipsoidBessel(g) == [g EXCEPT !.El = BesselEllipsoid]

\* gc.El = cartconvert.WGS84Ellipsoid
SetEllipsoid(g) == [g EXCEPT !.El = WGS84Ellipsoid]

\* func WGS84LatLongToBMN(gc *cartconvert.PolarCoord, meridian BMNMeridian)
\*     (*BMNCoord, os.Error)
\* g is the object gc points to and long the longitude of the local polar;
\* the field gc of the result is the object after the call.
WGS84LatLongToBMN(g, m, long) ==
    LET g1 == SetEllipsoid(g)
        p == WGS84ToMGI(g1, long)
        mer == DetermineMeridian(m, p.Longitude)
        par == DirectParams(mer)
        gp == DirectTransverseMercator(p, 0, par.long0, 1, par.fe, -5000000)
    IN  IF ~par.ok
        THEN [gc |-> g1, mgi |-> p, meridian |-> mer, coord |-> Nil,
              err |-> EINVAL, tm |-> Nil]
        ELSE [gc |-> g1, mgi |-> p, meridian |-> mer,
              coord |-> <<[Meridian |-> mer, Height |-> gp.Y, Right |-> gp.X,
                           RelHeight |-> 0, el |-> gp.El]>>,
              err |-> NoError,
              tm |-> <<[fn |-> "DirectTransverseMercator", lat0 |-> 0,
                        long0 |-> par.long0, scale |-> 1, fe |-> par.fe,
                        fnorth |-> -5000000]>>]

\* func NewBMNCoord(Meridian BMNMeridian, Right, Height, RelHeight float64) *BMNCoord
NewBMNCoord(Meridian, Right, Height, RelHeight) ==
    <<[Right |-> Right, Height |-> Height, RelHeight |-> RelHeight,
       Meridian |-> Meridian, el |-> BesselEllipsoid]>>

(***************************************************************************)
(* The inputs of the model.                                                *)
(***************************************************************************)
\* eastings and northings, in tenths: 0, 0.5, 1.5, 2.5, 7, 10, 1234.5,
\* 450000, 350000.5 and -1.5
Values == {0, 5, 15, 25, 70, 100, 12345, 4500000, 3500005, -15}

\* the values whose numerals are parsed
ParseValues == {0, 70, 4500000, 3500005, -15}

\* every value of type BMNMeridian the model uses: the four constants and
\* one value that is none of them
Meridians == BMNZoneDet..(BMNM34 + 1)

\* longitudes of the point on the Bessel ellipsoid, in arc minutes: the
\* three ranges and MaxOut minutes on either side
Longitudes == (Deg(8) + HalfSixthTimesTen - MaxOut)..(Deg(17) + HalfSixthTimesTen + MaxOut)

\* longitudes the caller gives
CallerLongitudes == {Deg(5), Deg(11) + 5, Deg(11) + 50, Deg(13), Deg(25)}

SeqsUpTo(S, n) == UNION {[1..k -> S] : k \in 0..n}

Pads == SeqsUpTo({" ", "\t"}, MaxPad)
Seps == {[i \in 1..k |-> " "] : k \in 1..MaxSep}

\* the numeral of a value in tenths, as a decimal with every integer digit
\* and with a fractional digit only when it is not zero
Numeral(v) ==
    (IF v < 0 THEN <<"-">> ELSE <<>>) \o Itoa(Abs(v) \div 10)
        \o (IF Abs(v) % 10 = 0 THEN <<>> ELSE <<".", Digit[(Abs(v) % 10) + 1]>>)

ZoneCode(m) ==
    CASE m = BMNM28 -> <<"M", "2", "8">>
      [] m = BMNM31 -> <<"M", "3", "1">>
      [] m = BMNM34 -> <<"M", "3", "4">>

Zones == {BMNM28, BMNM31, BMNM34}

\* zone codes in upper, lower and mixed case
ZoneTokens ==
    {ZoneCode(m) : m \in Zones} \cup {<<"m", "2", "8">>, <<"m", "3", "1">>, <<"m", "3", "4">>}

NumTokens == {Numeral(v) : v \in ParseValues}

\* token sequences of every length up to 3 + MaxExtra: a zone code or X31,
\* then numerals or ABC, then extra tokens 7 or ABC
FirstTokens == {ZoneCode(m) : m \in Zones} \cup {<<"m", "3", "1">>, <<"X", "3", "1">>}
OtherTokens == NumTokens \cup {<<"A", "B", "C">>}
ExtraTokens == {<<"7">>, <<"A", "B", "C">>}

Heads(k) ==
    IF k = 0 THEN {<<>>}
    ELSE {<<f>> \o r : f \in FirstTokens, r \in [1..(k - 1) -> OtherTokens]}

TokenSeqs ==
    UNION {Heads(k) : k \in 0..2}
        \cup {h \o e : h \in Heads(3), e \in SeqsUpTo(ExtraTokens, MaxExtra)}

\* text made of tokens t with separator sep[i] after token i
RECURSIVE Join(_, _)
Join(t, sep) ==
    IF Len(t) = 0 THEN <<>>
    ELSE IF Len(t) = 1 THEN t[1]
    ELSE t[1] \o sep[1] \o Join(Tail(t), Tail(sep))

(***************************************************************************)
(* The state machine: a caller that makes objects and calls the engine.    *)
(***************************************************************************)
Init ==
    /\ op = "none"
    /\ gc = Nil
    /\ bc = Nil
    /\ before = [gc |-> Nil, bc |-> Nil]
    /\ shifted = 0
    /\ toks = <<>>
    /\ text = <<>>
    /\ marg = BMNZoneDet
    /\ mgi = Nil
    /\ meridian = BMNZoneDet
    /\ tm = Nil
    /\ fs = <<>>
    /\ coord = Nil
    /\ polar = Nil
    /\ err = NoError
    /\ panicked = FALSE

\* what a step that makes or drops an object leaves of the last call
NoCall ==
    /\ before' = [gc |-> Nil, bc |-> Nil]
    /\ toks' = <<>>
    /\ text' = <<>>
    /\ marg' = BMNZoneDet
    /\ mgi' = Nil
    /\ meridian' = BMNZoneDet
    /\ tm' = Nil
    /\ fs' = <<>>
    /\ coord' = Nil
    /\ polar' = Nil
    /\ err' = NoError
    /\ panicked' = FALSE

\* the caller makes a geodetic point: &cartconvert.PolarCoord{...}.  The
\* longitude that the datum shift gives for it is a function of the point,
\* fixed here for as long as the object lives.
MakePolarCoord ==
    \E long \in CallerLongitudes, el \in {WGS84Ellipsoid, BesselEllipsoid},
       s \in Longitudes :
        /\ op = "none"
        /\ op' = "PolarCoord"
        /\ shifted' = s
        /\ gc' = <<[Latitude |-> Deg(47), Longitude |-> long, Height |-> 0, El |-> el]>>
        /\ bc' = Nil
        /\ NoCall

\* the caller makes a grid coordinate with NewBMNCoord
MakeBMNCoord ==
    \E m \in Meridians, r \in Values, h \in Values :
        /\ op = "none"
        /\ op' = "NewBMNCoord"
        /\ shifted' = 0
        /\ bc' = NewBMNCoord(m, r, h, 0)
        /\ gc' = Nil
        /\ NoCall

\* the caller lets go of its objects and of the results of its last call
Drop ==
    /\ op # "none"
    /\ op' = "none"
    /\ gc' = Nil
    /\ bc' = Nil
    /\ shifted' = 0
    /\ NoCall

\* bc.String()
CallString ==
    /\ bc # Nil
    /\ op' = "String"
    /\ fs' = String(bc[1])
    /\ toks' = <<>>
    /\ text' = <<>>
    /\ marg' = BMNZoneDet
    /\ mgi' = Nil
    /\ meridian' = BMNZoneDet
    /\ tm' = Nil
    /\ coord' = Nil
    /\ polar' = Nil
    /\ err' = NoError
    /\ panicked' = FALSE
    /\ before' = [gc |-> gc, bc |-> bc]
    /\ UNCHANGED <<gc, bc, shifted>>

\* the state after ABMNToStruct(t), t made of the tokens tk
Parsed(t, tk) ==
    LET r == ABMNToStruct(t)
    IN  /\ toks' = tk
        /\ text' = t
        /\ coord' = r.coord
        /\ err' = r.err
        /\ panicked' = r.panic
        /\ marg' = BMNZoneDet
        /\ mgi' = Nil
        /\ meridian' = BMNZoneDet
        /\ tm' = Nil
        /\ polar' = Nil

\* ABMNToStruct on a zone code and two numerals, with whitespace around
\* them and one or more spaces between them
ParseWellFormed ==
    /\ op = "none"
    /\ \E lead \in Pads, trail \in Pads, z \in ZoneTokens, s1 \in Seps, s2 \in Seps,
          n1 \in NumTokens, n2 \in NumTokens :
          Parsed(lead \o z \o s1 \o n1 \o s2 \o n2 \o trail, <<z, n1, n2>>)
    /\ op' = "ABMNToStruct"
    /\ fs' = <<>>
    /\ before' = [gc |-> gc, bc |-> bc]
    /\ UNCHANGED <<gc, bc, shifted>>

\* ABMNToStruct on any number of tokens, of any kind, one space apart
ParseTokens ==
    /\ op = "none"
    /\ \E t \in TokenSeqs, trail \in Pads :
          Parsed(Join(t, [i \in 1..Len(t) |-> <<" ">>]) \o trail, t)
    /\ op' = "ABMNToStruct"
    /\ fs' = <<>>
    /\ before' = [gc |-> gc, bc |-> bc]
    /\ UNCHANGED <<gc, bc, shifted>>

\* ABMNToStruct(bc.String())
ParseFormatted ==
    /\ op = "String"
    /\ Parsed(fs, <<>>)
    /\ op' = "ABMNToStruct(String)"
    /\ before' = [gc |-> gc, bc |-> bc]
    /\ UNCHANGED <<gc, bc, shifted, fs>>

\* BMNToWGS84LatLong(bc)
CallBMNToWGS84LatLong ==
    /\ bc # Nil
    /\ LET r == BMNToWGS84LatLong(bc[1])
       IN  /\ polar' = r.polar
           /\ err' = r.err
           /\ tm' = r.tm
    /\ op' = "BMNToWGS84LatLong"
    /\ toks' = <<>>
    /\ text' = <<>>
    /\ marg' = BMNZoneDet
    /\ mgi' = Nil
    /\ meridian' = BMNZoneDet
    /\ fs' = <<>>
    /\ coord' = Nil
    /\ panicked' = FALSE
    /\ before' = [gc |-> gc, bc |-> bc]
    /\ UNCHANGED <<gc, bc, shifted>>

\* WGS84LatLongToBMN(gc, m)
CallWGS84LatLongToBMN ==
    /\ gc # Nil
    /\ \E m \in BMNZoneDet..BMNM34 :
          LET r == WGS84LatLongToBMN(gc[1], m, shifted)
          IN  /\ gc' = <<r.gc>>
              /\ marg' = m
              /\ mgi' = <<r.mgi>>
              /\ meridian' = r.meridian
              /\ tm' = r.tm
              /\ coord' = r.coord
              /\ err' = r.err
    /\ op' = "WGS84LatLongToBMN"
    /\ toks' = <<>>
    /\ text' = <<>>
    /\ fs' = <<>>
    /\ polar' = Nil
    /\ panicked' = FALSE
    /\ before' = [gc |-> gc, bc |-> bc]
    /\ UNCHANGED <<bc, shifted>>

Next ==
    \/ MakePolarCoord
    \/ MakeBMNCoord
    \/ Drop
    \/ CallString
    \/ ParseWellFormed
    \/ ParseTokens
    \/ ParseFormatted
    \/ CallBMNToWGS84LatLong
    \/ CallWGS84LatLongToBMN

Spec == Init /\ [][Next]_vars

(***************************************************************************)
(* Properties.                                                             *)
(***************************************************************************)
Sp == <<" ">>

\* the zone a zone token names, whatever the case of its letter
ZoneNamed(tok) == CHOOSE m \in Zones : SubSeq(ZoneCode(m), 2, 3) = SubSeq(tok, 2, 3)

\* the value a numeral of NumTokens denotes
ValueOf(tok) == CHOOSE v \in ParseValues : Numeral(v) = tok

IsZoneToken(tok) == Len(tok) = 3 /\ tok[1] \in {"M", "m"} /\ \E m \in Zones :
                        SubSeq(ZoneCode(m), 2, 3) = SubSeq(tok, 2, 3)

\* C1: String of a coordinate with a resolved zone returns the zone code, the
\* easting and the northing, one space apart, each numeral denoting the value
\* of its field with every integer digit, no trailing zero of a fraction and
\* no trailing decimal point.
C1_StringIsCanonical ==
    (op = "String" /\ bc[1].Meridian \in Zones) =>
        fs = ZoneCode(bc[1].Meridian) \o Sp \o Numeral(bc[1].Right)
                 \o Sp \o Numeral(bc[1].Height)

\* C2: for a coordinate with zone M28, M31 or M34, the Bessel ellipsoid and
\* integral easting and northing, ABMNToStruct(c.String()) succeeds and
\* returns a coordinate equal to c in zone, easting, northing and ellipsoid.
C2_ParseInvertsString ==
    (/\ op = "ABMNToStruct(String)"
     /\ bc[1].Meridian \in Zones
     /\ bc[1].el = BesselEllipsoid
     /\ bc[1].Right % 10 = 0
     /\ bc[1].Height % 10 = 0) =>
        /\ ~panicked
        /\ err = NoError
        /\ coord # Nil
        /\ coord[1].Meridian = bc[1].Meridian
        /\ coord[1].Right = bc[1].Right
        /\ coord[1].Height = bc[1].Height
        /\ coord[1].el = bc[1].el

\* C3: ABMNToStruct of a text of fewer than three tokens whose first token is
\* a recognized zone code returns nil and an error; it does not panic.
C3_TooFewTokensIsAnError ==
    (/\ op = "ABMNToStruct"
     /\ Len(toks) \in 1..2
     /\ IsZoneToken(toks[1])) =>
        /\ ~panicked
        /\ coord = Nil
        /\ err # NoError

\* C4: ABMNToStruct of a text of more than three tokens fails with an error
\* and returns no coordinate.
C4_ExtraTokensIsAnError ==
    (op = "ABMNToStruct" /\ Len(toks) > 3) =>
        /\ coord = Nil
        /\ err # NoError

\* C5: ABMNToStruct of optional whitespace, a zone code in any letter case,
\* spaces, an easting numeral, spaces, a northing numeral and optional
\* whitespace succeeds and returns the zone the code names, the values of
\* the second and third token as easting and northing, and the Bessel
\* ellipsoid.
C5_WellFormedTextParses ==
    (/\ op = "ABMNToStruct"
     /\ Len(toks) = 3
     /\ IsZoneToken(toks[1])
     /\ toks[2] \in NumTokens
     /\ toks[3] \in NumTokens) =>
        /\ ~panicked
        /\ err = NoError
        /\ coord = <<[Right |-> ValueOf(toks[2]), Height |-> ValueOf(toks[3]),
                      RelHeight |-> 0, Meridian |-> ZoneNamed(toks[1]),
                      el |-> BesselEllipsoid]>>

\* C5 witness: tab, "m31", two spaces, "450000", one space, "350000.5" has
\* been parsed into a coordinate.
C5_Witness ==
    /\ op = "ABMNToStruct"
    /\ text = <<"\t", "m", "3", "1", " ", " ", "4", "5", "0", "0", "0", "0", " ",
                "3", "5", "0", "0", "0", "0", ".", "5">>
    /\ coord # Nil
    /\ coord[1].Meridian = BMNM31
    /\ coord[1].Height = 3500005

\* the range test of a zone
Matches(z, long) ==
    CASE z = BMNM28 -> InM28Range(long)
      [] z = BMNM31 -> InM31Range(long)
      [] z = BMNM34 -> InM34Range(long)

\* C6: automatic zone determination takes the first of M28, M31, M34 whose
\* range test the longitude passes; a longitude on the boundary of two
\* ranges passes both tests and gets the earlier zone.
C6_FirstMatchingRangeWins ==
    (op = "WGS84LatLongToBMN" /\ marg = BMNZoneDet) =>
        LET long == mgi[1].Longitude
        IN  /\ meridian \in Zones =>
                 /\ Matches(meridian, long)
                 /\ \A z \in Zones : z < meridian => ~Matches(z, long)
            /\ meridian \notin Zones =>
                 /\ meridian = BMNZoneDet
                 /\ \A z \in Zones : ~Matches(z, long)
            /\ long = Deg(11) + 50 =>
                 /\ Matches(BMNM28, long) /\ Matches(BMNM31, long)
                 /\ meridian = BMNM28
            /\ long = Deg(14) + 50 =>
                 /\ Matches(BMNM31, long) /\ Matches(BMNM34, long)
                 /\ meridian = BMNM31

\* C6 witness: a longitude on the boundary of the M28 and M31 ranges has been
\* resolved to M28 and projected.
C6_Witness ==
    /\ op = "WGS84LatLongToBMN"
    /\ marg = BMNZoneDet
    /\ mgi[1].Longitude = Deg(11) + 50
    /\ meridian = BMNM28
    /\ coord # Nil
    /\ coord[1].Meridian = BMNM28

\* b is the boundary the M28 and the M31 range share: it passes both tests,
\* no longitude above it passes the M28 test and none below it the M31 test
SharedBoundary(b) ==
    op = "WGS84LatLongToBMN" =>
        LET long == mgi[1].Longitude
        IN  /\ long = b => (InM28Range(long) /\ InM31Range(long))
            /\ InM28Range(long) => long <= b
            /\ InM31Range(long) => long >= b

\* C7 as stated: longitude 11 + 5/60 degrees is the boundary the M28 and M31
\* ranges share, the upper bound of the M28 test and the lower bound of the
\* M31 test, and passes both tests.
C7_BoundaryIs11Deg5Min == SharedBoundary(Deg(11) + 5)

\* C7 as amended: longitude 11 + 50/60 degrees (11.0+0.5/6*10) is the
\* boundary the M28 and M31 ranges share, the upper bound of the M28 test
\* and the lower bound of the M31 test, and passes both tests.
C7_BoundaryIs11Deg50Min == SharedBoundary(Deg(11) + 50)

\* C7 witness: zone determination has run on longitude 11 + 50/60 degrees,
\* which passes the M28 and the M31 test.
C7_Witness ==
    /\ op = "WGS84LatLongToBMN"
    /\ mgi[1].Longitude = Deg(11) + 50
    /\ InM28Range(mgi[1].Longitude)
    /\ InM31Range(mgi[1].Longitude)

\* central meridian (arc minutes) and false easting (metres) of the stripes
CentralMeridian(z) ==
    CASE z = BMNM28 -> 620 [] z = BMNM31 -> 800 [] z = BMNM34 -> 980
FalseEasting(z) ==
    CASE z = BMNM28 -> 150000 [] z = BMNM31 -> 450000 [] z = BMNM34 -> 750000

\* C8: with an explicit zone M28, M31 or M34, WGS84LatLongToBMN succeeds for
\* every longitude, and the coordinate carries the given zone and is
\* projected with that zone's central meridian and false easting.
C8_ExplicitZoneWins ==
    (op = "WGS84LatLongToBMN" /\ marg \in Zones) =>
        /\ err = NoError
        /\ meridian = marg
        /\ coord # Nil
        /\ coord[1].Meridian = marg
        /\ tm # Nil
        /\ tm[1].fn = "DirectTransverseMercator"
        /\ tm[1].long0 = CentralMeridian(marg)
        /\ tm[1].fe = FalseEasting(marg)
        /\ coord[1].Right = DirectTransverseMercator(
               mgi[1], 0, CentralMeridian(marg), 1, FalseEasting(marg), -5000000).X

\* C8 witness: M34 was given for a longitude inside the M28 range, and the
\* result carries M34.
C8_Witness ==
    /\ op = "WGS84LatLongToBMN"
    /\ marg = BMNM34
    /\ InM28Range(mgi[1].Longitude)
    /\ ~InM34Range(mgi[1].Longitude)
    /\ coord # Nil
    /\ coord[1].Meridian = BMNM34

\* C9: a coordinate whose zone is unresolved is never projected.
\* WGS84LatLongToBMN without an explicit zone on a longitude in none of the
\* ranges, and BMNToWGS84LatLong on a meridian other than M28, M31, M34,
\* return nil and an error and make no Transverse Mercator call; every call
\* whose zone is resolved returns a result and no error.
C9_UnresolvedIsNeverProjected ==
    /\ op = "WGS84LatLongToBMN" =>
          IF marg \in Zones \/ \E z \in Zones : Matches(z, mgi[1].Longitude)
          THEN coord # Nil /\ err = NoError /\ tm # Nil
          ELSE coord = Nil /\ err # NoError /\ tm = Nil
    /\ op = "BMNToWGS84LatLong" =>
          IF bc[1].Meridian \in Zones
          THEN polar # Nil /\ err = NoError /\ tm # Nil
          ELSE polar = Nil /\ err # NoError /\ tm = Nil

\* C9 witness: WGS84LatLongToBMN without an explicit zone, on a longitude in
\* none of the ranges, has returned nil and an error.
C9_Witness ==
    /\ op = "WGS84LatLongToBMN"
    /\ marg = BMNZoneDet
    /\ \A z \in Zones : ~Matches(z, mgi[1].Longitude)
    /\ coord = Nil
    /\ err = EINVAL
    /\ tm = Nil

EngineOps == {"String", "ABMNToStruct", "ABMNToStruct(String)",
              "BMNToWGS84LatLong", "WGS84LatLongToBMN"}

\* C10 as stated: after every engine operation, on the success path and on
\* the error path, every field of every argument has the value it had
\* before the call.
C10_ArgumentsUnchanged ==
    op \in EngineOps => (gc = before.gc /\ bc = before.bc)

\* C10 as amended: after every engine operation, on either path, every field
\* of every argument has the value it had before the call, but for the
\* field El of the point given to WGS84LatLongToBMN, which is
\* WGS84Ellipsoid.
C10_OnlyEllipsoidIsOverwritten ==
    op \in EngineOps =>
        /\ bc = before.bc
        /\ IF op = "WGS84LatLongToBMN"
           THEN gc = <<[before.gc[1] EXCEPT !.El = WGS84Ellipsoid]>>
           ELSE gc = before.gc

\* C10 witness: WGS84LatLongToBMN has failed on a point that had the Bessel
\* ellipsoid, and the point has the WGS84 ellipsoid.
C10_Witness ==
    /\ op = "WGS84LatLongToBMN"
    /\ err = EINVAL
    /\ before.gc[1].El = BesselEllipsoid
    /\ gc[1].El = WGS84Ellipsoid
    /\ gc[1].Longitude = before.gc[1].Longitude

=============================================================================
